---- MODULE Spec2Model ----
(***************************************************************************)
(* Model of time_of_use_calculator.py: the TOU-DR1 bucket classifier       *)
(* get_tou_bucket, the holiday lookup is_holiday it calls, the theme       *)
(* lookup get_theme_for_bucket, and the part of main that chains them.     *)
(*                                                                         *)
(* Time of day.  The source computes t = now.hour + now.minute / 60.0 and  *)
(* compares t with whole hours.  The model keeps t exactly, in sixtieths   *)
(* of an hour: t(now) = 60 * hour + minute, and a threshold of h hours is  *)
(* written h * 60.  (minute / 60.0 is below 1 for minute <= 59 and the sum *)
(* with an hour <= 23 is far from any rounding to the next whole number,   *)
(* so the float comparisons agree with the exact ones.)                    *)
(*                                                                         *)
(* Labels are the source's strings; the substring test of                  *)
(* get_theme_for_bucket is computed on their characters.                   *)
(***************************************************************************)
EXTENDS Integers, Sequences, FiniteSets, TLC

VARIABLES now, oracle, pc, current_bucket, theme

vars == <<now, oracle, pc, current_bucket, theme>>

(* datetime fields get_tou_bucket reads: month, weekday() (0 = Monday), hour, minute *)
Timestamps == [month : 1..12, weekday : 0..6, hour : 0..23, minute : 0..59]

(* what holidays.US(years=now.year) / "now.date() in us_holidays" can do for now's date *)
OracleOutcomes == {"holiday", "not_holiday", "raise"}

(* Python's None, and the marker of an exception propagating out of a call *)
None == "None"
Raised == "Traceback"

(* is_holiday(now): membership test in the year's US holiday set; an
   exception of the library is not caught *)
is_holiday(orc) ==
    IF orc = "raise" THEN Raised
    ELSE IF orc = "holiday" THEN "True" ELSE "False"

(* t with the division by 60.0 left out: now.hour + now.minute *)
t_MinutesUnscaled(n) == n.hour * 60 + n.minute * 60

(* t = now.hour + now.minute / 60.0, in sixtieths of an hour *)
t(n) == n.hour * 60 + n.minute

(* the weekend branch with "t <= 14" for "t < 14" *)
WeekendHolidayBranch_InclusiveBound(n) ==
    IF t(n) <= 14 * 60 THEN "Super Off-Peak (Weekend/Holiday)"
    ELSE IF t(n) < 16 * 60 THEN "Off-Peak (Weekend/Holiday)"
    ELSE IF t(n) < 21 * 60 THEN "On-Peak (Weekend/Holiday)"
    ELSE "Off-Peak (Weekend/Holiday)"

(* the weekend branch with the On-Peak test "t < 20" for "t < 21" *)
WeekendHolidayBranch_PeakEndsEarly(n) ==
    IF t(n) < 14 * 60 THEN "Super Off-Peak (Weekend/Holiday)"
    ELSE IF t(n) < 16 * 60 THEN "Off-Peak (Weekend/Holiday)"
    ELSE IF t(n) < 20 * 60 THEN "On-Peak (Weekend/Holiday)"
    ELSE "Off-Peak (Weekend/Holiday)"

(* lines 31-38: the branch taken on Saturday, Sunday or a holiday *)
WeekendHolidayBranch(n) ==
    IF t(n) < 14 * 60 THEN "Super Off-Peak (Weekend/Holiday)"
    ELSE IF t(n) < 16 * 60 THEN "Off-Peak (Weekend/Holiday)"
    ELSE IF t(n) < 21 * 60 THEN "On-Peak (Weekend/Holiday)"
    ELSE "Off-Peak (Weekend/Holiday)"

(* the weekday branch without its final else: the function falls off its
   end and returns None from 21:00 on *)
WeekdayBranch_NoFinalElse(n) ==
    IF t(n) < 6 * 60 THEN "Super Off-Peak (Weekday)"
    ELSE IF t(n) < 16 * 60
         THEN IF n.month \in {3, 4} /\ 10 * 60 <= t(n) /\ t(n) < 14 * 60
              THEN "Extra Off-Peak (Mar/Apr, Weekday)"
              ELSE "Off-Peak (Weekday)"
    ELSE IF t(n) < 21 * 60 THEN "On-Peak (Weekday)"
    ELSE None

(* the weekday branch with "t <= 6" for "t < 6" *)
WeekdayBranch_SixInclusive(n) ==
    IF t(n) <= 6 * 60 THEN "Super Off-Peak (Weekday)"
    ELSE IF t(n) < 16 * 60
         THEN IF n.month \in {3, 4} /\ 10 * 60 <= t(n) /\ t(n) < 14 * 60
              THEN "Extra Off-Peak (Mar/Apr, Weekday)"
              ELSE "Off-Peak (Weekday)"
    ELSE IF t(n) < 21 * 60 THEN "On-Peak (Weekday)"
    ELSE "Off-Peak (Weekday)"

(* the weekday branch without the month test of the extra window *)
WeekdayBranch_NoMonthGate(n) ==
    IF t(n) < 6 * 60 THEN "Super Off-Peak (Weekday)"
    ELSE IF t(n) < 16 * 60
         THEN IF 10 * 60 <= t(n) /\ t(n) < 14 * 60
              THEN "Extra Off-Peak (Mar/Apr, Weekday)"
              ELSE "Off-Peak (Weekday)"
    ELSE IF t(n) < 21 * 60 THEN "On-Peak (Weekday)"
    ELSE "Off-Peak (Weekday)"

(* lines 41-52: the weekday branch *)
WeekdayBranch(n) ==
    IF t(n) < 6 * 60 THEN "Super Off-Peak (Weekday)"
    ELSE IF t(n) < 16 * 60
         THEN IF n.month \in {3, 4} /\ 10 * 60 <= t(n) /\ t(n) < 14 * 60
              THEN "Extra Off-Peak (Mar/Apr, Weekday)"
              ELSE "Off-Peak (Weekday)"
    ELSE IF t(n) < 21 * 60 THEN "On-Peak (Weekday)"
    ELSE "Off-Peak (Weekday)"

(* line 30 with "now.weekday() > 5": Saturday taken for a weekday *)
UseWeekendLogic_SundayOnly(n, orc) ==
    IF n.weekday > 5 THEN "True" ELSE is_holiday(orc)

(* line 30: "now.weekday() >= 5 or is_holiday(now)"; `or` short-circuits, so
   is_holiday is called only when the weekday test is false.  The value is
   "True", "False", or Raised when the call raised. *)
UseWeekendLogic(n, orc) ==
    IF n.weekday >= 5 THEN "True" ELSE is_holiday(orc)

(* get_tou_bucket(now): the returned label, or Raised *)
get_tou_bucket(n, orc) ==
    LET c == UseWeekendLogic(n, orc)
    IN  IF c = Raised THEN Raised
        ELSE IF c = "True" THEN WeekendHolidayBranch(n)
        ELSE WeekdayBranch(n)

(* `"On-Peak" in bucket`: substring test *)
Contains(p, s) ==
    \E i \in 1..(Len(s) - Len(p) + 1) : SubSeq(s, i, i + Len(p) - 1) = p

(* get_theme_for_bucket with `bucket == "On-Peak"` for `"On-Peak" in bucket` *)
get_theme_for_bucket_Equality(bucket) ==
    IF bucket = "On-Peak"
    THEN [bg_color |-> "#f0e5d8", emoji |-> "stop"]
    ELSE [bg_color |-> "#e0f7fa", emoji |-> "check"]

(* get_theme_for_bucket(bucket) *)
get_theme_for_bucket(bucket) ==
    IF Contains("On-Peak", bucket)
    THEN [bg_color |-> "#f0e5d8", emoji |-> "stop"]
    ELSE [bg_color |-> "#e0f7fa", emoji |-> "check"]

NoTheme == [bg_color |-> None, emoji |-> None]

(* The script starts: the clock and the holiday library are the environment *)
Init ==
    /\ now \in Timestamps
    /\ oracle \in OracleOutcomes
    /\ pc = "main"
    /\ current_bucket = None
    /\ theme = NoTheme

(* main, line 69: current_bucket = get_tou_bucket(now); an exception ends the script *)
CallGetTouBucket ==
    /\ pc = "main"
    /\ LET r == get_tou_bucket(now, oracle)
       IN  IF r = Raised
           THEN /\ pc' = "crashed"
                /\ current_bucket' = current_bucket
           ELSE /\ pc' = "classified"
                /\ current_bucket' = r
    /\ UNCHANGED <<now, oracle, theme>>

(* main, line 70: theme = get_theme_for_bucket(current_bucket) *)
CallGetThemeForBucket ==
    /\ pc = "classified"
    /\ theme' = get_theme_for_bucket(current_bucket)
    /\ pc' = "themed"
    /\ UNCHANGED <<now, oracle, current_bucket>>

Next == CallGetTouBucket \/ CallGetThemeForBucket

Spec == Init /\ [][Next]_vars

TypeOK ==
    /\ now \in Timestamps
    /\ oracle \in OracleOutcomes
    /\ pc \in {"main", "classified", "themed", "crashed"}

(***************************************************************************)
(* Vocabulary of the properties: the clock reading as hours and minutes,   *)
(* the day-type, and the labels by kind.                                   *)
(***************************************************************************)
HM(h, m) == 60 * h + m
TimeOfDay == HM(now.hour, now.minute)
Between(lo, hi) == lo <= TimeOfDay /\ TimeOfDay < hi

Returned == pc \in {"classified", "themed"}
HolidayAnswered == oracle \in {"holiday", "not_holiday"}
WeekendOrHoliday == now.weekday \in {5, 6} \/ oracle = "holiday"
Weekday == now.weekday \in 0..4 /\ oracle = "not_holiday"

SuperOffPeakWE == "Super Off-Peak (Weekend/Holiday)"
OffPeakWE == "Off-Peak (Weekend/Holiday)"
OnPeakWE == "On-Peak (Weekend/Holiday)"
SuperOffPeakWD == "Super Off-Peak (Weekday)"
OffPeakWD == "Off-Peak (Weekday)"
ExtraOffPeakWD == "Extra Off-Peak (Mar/Apr, Weekday)"
OnPeakWD == "On-Peak (Weekday)"
WeekendHolidayLabels == {SuperOffPeakWE, OffPeakWE, OnPeakWE}
WeekdayLabels == {SuperOffPeakWD, OffPeakWD, ExtraOffPeakWD, OnPeakWD}
BucketLabels == WeekendHolidayLabels \cup WeekdayLabels
OnPeakLabels == {OnPeakWD, OnPeakWE}
Discouraging == [bg_color |-> "#f0e5d8", emoji |-> "stop"]
Encouraging == [bg_color |-> "#e0f7fa", emoji |-> "check"]

(* C1: with a holiday answer of true or false, the call of get_tou_bucket
   never ends in an exception and what it returns is one of the enumerated
   bucket labels (never None, never anything else). *)
C1_Totality ==
    (HolidayAnswered /\ pc # "main") =>
        /\ pc # "crashed"
        /\ current_bucket \in BucketLabels

C1_Witness ==
    /\ pc = "classified" /\ oracle = "not_holiday" /\ now.weekday = 2
    /\ now.hour = 23 /\ now.minute = 59
    /\ current_bucket = OffPeakWD

(* C2: on a Weekend-or-Holiday day, in every month, the returned bucket is
   SuperOffPeak before 14:00, OffPeak from 14:00 to 16:00, OnPeak from 16:00
   to 21:00 and OffPeak from 21:00 on; ExtraOffPeak is never returned. *)
C2_WeekendHolidayTable ==
    (Returned /\ WeekendOrHoliday) =>
        /\ Between(HM(0, 0), HM(14, 0)) => current_bucket = SuperOffPeakWE
        /\ Between(HM(14, 0), HM(16, 0)) => current_bucket = OffPeakWE
        /\ Between(HM(16, 0), HM(21, 0)) => current_bucket = OnPeakWE
        /\ Between(HM(21, 0), HM(24, 0)) => current_bucket = OffPeakWE
        /\ current_bucket # ExtraOffPeakWD

C2_Witness ==
    /\ pc = "classified" /\ now.weekday = 5 /\ now.month = 3
    /\ now.hour = 13 /\ now.minute = 59
    /\ current_bucket = SuperOffPeakWE

(* C3: on a Weekday (Monday-Friday, not a holiday) the returned bucket is
   SuperOffPeak before 6:00; from 6:00 to 16:00 it is ExtraOffPeak when the
   month is March or April and the time is in 10:00-14:00, OffPeak
   otherwise; OnPeak from 16:00 to 21:00; OffPeak from 21:00 on. *)
C3_WeekdayTable ==
    (Returned /\ Weekday) =>
        /\ Between(HM(0, 0), HM(6, 0)) => current_bucket = SuperOffPeakWD
        /\ Between(HM(6, 0), HM(16, 0)) =>
              current_bucket =
                 IF now.month \in {3, 4} /\ Between(HM(10, 0), HM(14, 0))
                 THEN ExtraOffPeakWD ELSE OffPeakWD
        /\ Between(HM(16, 0), HM(21, 0)) => current_bucket = OnPeakWD
        /\ Between(HM(21, 0), HM(24, 0)) => current_bucket = OffPeakWD

C3_Witness ==
    /\ pc = "classified" /\ now.weekday = 0 /\ oracle = "not_holiday"
    /\ now.month = 7 /\ now.hour = 15 /\ now.minute = 59
    /\ current_bucket = OffPeakWD

(* The day of each day-type as a list of intervals [lo, hi) with their bucket *)
WeekendHolidayIntervals ==
    << [lo |-> HM(0, 0),  hi |-> HM(14, 0), bucket |-> SuperOffPeakWE],
       [lo |-> HM(14, 0), hi |-> HM(16, 0), bucket |-> OffPeakWE],
       [lo |-> HM(16, 0), hi |-> HM(21, 0), bucket |-> OnPeakWE],
       [lo |-> HM(21, 0), hi |-> HM(24, 0), bucket |-> OffPeakWE] >>
WeekdayIntervals ==
    << [lo |-> HM(0, 0),  hi |-> HM(6, 0),  bucket |-> SuperOffPeakWD],
       [lo |-> HM(6, 0),  hi |-> HM(16, 0), bucket |-> OffPeakWD],
       [lo |-> HM(16, 0), hi |-> HM(21, 0), bucket |-> OnPeakWD],
       [lo |-> HM(21, 0), hi |-> HM(24, 0), bucket |-> OffPeakWD] >>
WeekdayMarAprIntervals ==
    << [lo |-> HM(0, 0),  hi |-> HM(6, 0),  bucket |-> SuperOffPeakWD],
       [lo |-> HM(6, 0),  hi |-> HM(10, 0), bucket |-> OffPeakWD],
       [lo |-> HM(10, 0), hi |-> HM(14, 0), bucket |-> ExtraOffPeakWD],
       [lo |-> HM(14, 0), hi |-> HM(16, 0), bucket |-> OffPeakWD],
       [lo |-> HM(16, 0), hi |-> HM(21, 0), bucket |-> OnPeakWD],
       [lo |-> HM(21, 0), hi |-> HM(24, 0), bucket |-> OffPeakWD] >>
IntervalsOfDay ==
    IF WeekendOrHoliday THEN WeekendHolidayIntervals
    ELSE IF now.month \in {3, 4} THEN WeekdayMarAprIntervals
    ELSE WeekdayIntervals
Contiguous(iv) ==
    /\ iv[1].lo = HM(0, 0)
    /\ iv[Len(iv)].hi = HM(24, 0)
    /\ \A i \in 1..Len(iv) : iv[i].lo < iv[i].hi
    /\ \A i \in 1..(Len(iv) - 1) : iv[i].hi = iv[i + 1].lo

(* C4: the returned label carries the Weekend/Holiday qualifier (and is the
   Weekend-or-Holiday table's label for the time) exactly when the weekday
   is Saturday or Sunday or the holiday answer is true; otherwise it carries
   the Weekday qualifier.  A holiday on Monday-Friday at 13:00 gives
   SuperOffPeak (Weekend/Holiday), and on Saturday or Sunday the label is
   the one an ordinary Saturday or Sunday gets, whatever the holiday answer. *)
C4_DayType ==
    Returned =>
        /\ current_bucket \in WeekendHolidayLabels <=> WeekendOrHoliday
        /\ current_bucket \in WeekdayLabels <=> ~WeekendOrHoliday
        /\ WeekendOrHoliday =>
              \E i \in 1..Len(WeekendHolidayIntervals) :
                  /\ Between(WeekendHolidayIntervals[i].lo, WeekendHolidayIntervals[i].hi)
                  /\ current_bucket = WeekendHolidayIntervals[i].bucket
        /\ (now.weekday \in 0..4 /\ oracle = "holiday" /\ TimeOfDay = HM(13, 0))
              => current_bucket = SuperOffPeakWE
        /\ now.weekday \in {5, 6}
              => current_bucket = get_tou_bucket(now, "not_holiday")

C4_Witness ==
    /\ pc = "classified" /\ now.weekday = 1 /\ oracle = "holiday"
    /\ now.hour = 13 /\ now.minute = 0
    /\ current_bucket = SuperOffPeakWE

(* C5: ExtraOffPeak is returned exactly when the day is a Weekday, the month
   is March or April and 10:00 <= time < 14:00; at the same weekday time in
   another month, and in March/April at 9:59 or 14:00, OffPeak is returned. *)
C5_ExtraOffPeakGating ==
    Returned =>
        /\ current_bucket = ExtraOffPeakWD <=>
              (Weekday /\ now.month \in {3, 4} /\ Between(HM(10, 0), HM(14, 0)))
        /\ (Weekday /\ now.month \notin {3, 4} /\ Between(HM(10, 0), HM(14, 0)))
              => current_bucket = OffPeakWD
        /\ (Weekday /\ now.month \in {3, 4} /\ TimeOfDay \in {HM(9, 59), HM(14, 0)})
              => current_bucket = OffPeakWD

C5_Witness ==
    /\ pc = "classified" /\ now.weekday = 2 /\ oracle = "not_holiday"
    /\ now.month = 3 /\ now.hour = 10 /\ now.minute = 0
    /\ current_bucket = ExtraOffPeakWD

(* C6: for each day-type the buckets are contiguous half-open intervals
   [lower, upper) covering 00:00-23:59: the returned bucket is the bucket of
   the one interval holding the time, a time exactly on a threshold gets the
   bucket of the interval that starts there, and the minute before it the
   bucket of the interval that ends there. *)
C6_HalfOpenPartition ==
    Returned =>
        LET iv == IntervalsOfDay
        IN  /\ Contiguous(iv)
            /\ \A i \in 1..Len(iv) :
                  /\ Between(iv[i].lo, iv[i].hi) => current_bucket = iv[i].bucket
                  /\ TimeOfDay = iv[i].lo => current_bucket = iv[i].bucket
                  /\ TimeOfDay = iv[i].hi - 1 => current_bucket = iv[i].bucket

C6_Witness ==
    /\ pc = "classified" /\ now.weekday = 3 /\ oracle = "not_holiday"
    /\ now.month = 4 /\ now.hour = 14 /\ now.minute = 0
    /\ current_bucket = OffPeakWD

(* C7: for every label get_tou_bucket returned, get_theme_for_bucket gives
   the discouraging theme when the label is an OnPeak bucket and the
   encouraging theme for every other bucket, and nothing else. *)
C7_ThemeConsistency ==
    pc = "themed" =>
        /\ current_bucket \in OnPeakLabels => theme = Discouraging
        /\ current_bucket \in BucketLabels \ OnPeakLabels => theme = Encouraging
        /\ theme \in {Discouraging, Encouraging}

C7_Witness ==
    /\ pc = "themed" /\ current_bucket = OnPeakWE /\ theme = Discouraging

(* C8: when the holiday lookup fails for a Monday-Friday timestamp, the
   classification still completes, with "not a holiday" as the answer: the
   Weekday table's bucket is returned and no exception leaves
   get_tou_bucket. *)
C8_OracleFailureDefault ==
    (oracle = "raise" /\ now.weekday \in 0..4 /\ pc # "main") =>
        /\ pc # "crashed"
        /\ current_bucket \in WeekdayLabels

(* C10: an OnPeak bucket is returned exactly when 16:00 <= time < 21:00,
   whatever the weekday, holiday answer and month; the theme main computes
   from it is the discouraging one exactly then, the encouraging one at
   every other time. *)
C10_OnPeakWindow ==
    /\ Returned =>
          (current_bucket \in OnPeakLabels <=> Between(HM(16, 0), HM(21, 0)))
    /\ pc = "themed" =>
          /\ theme = Discouraging <=> Between(HM(16, 0), HM(21, 0))
          /\ theme = Encouraging <=> ~Between(HM(16, 0), HM(21, 0))

C10_Witness ==
    /\ pc = "themed" /\ now.weekday = 6 /\ oracle = "holiday"
    /\ now.hour = 20 /\ now.minute = 59
    /\ current_bucket = OnPeakWE /\ theme = Discouraging
====
